---- MODULE Spec2Model ----
(***************************************************************************)
(* gomigrate: the Migrator state machine of gomigrate.go against a         *)
(* transactional database.                                                 *)
(*                                                                         *)
(* The committed database is (tableExists, rows, objs): the metadata table *)
(* gomigrate, the set of migration_id values it holds, and the schema      *)
(* objects the scripts made.  Statement k of the up script of migration id *)
(* makes object <<id, k>>, statement k of its down script drops it.  A     *)
(* transaction works on a private copy (txRows, txObjs) that Commit        *)
(* publishes and Rollback drops.  Every database call may fail.            *)
(*                                                                         *)
(* Three further specifications run the code that builds a collection and  *)
(* splits a script: CtorSpec (NewMigratorWithMigrations), SplitSpec (the   *)
(* MySQL GetMigrationCommands) and LoadSpec (MigrationsFromPath).          *)
(***************************************************************************)
EXTENDS Integers, Sequences, FiniteSets, TLC

\* Bounds of the model.
MaxId == 2
MaxCmds == 2
MaxMigs == 3      \* longest slice handed to NewMigratorWithMigrations
MaxBody == 5      \* longest script text after the optional "delimiter " prefix
MaxFiles == 3     \* most files in the directory MigrationsFromPath reads

\* Migration statuses (migration.go, const block).
Inactive == 0
Active == 1

Ids == 1..MaxId
\* A script is "" (0 commands) or splits into MaxCmds commands.
ScriptLens == {0, MaxCmds}
Dirs == {"up", "down"}
RollbackOps == {"Rollback", "RollbackN", "RollbackAll"}

VARIABLES
  ids,          \* keys of Migrator.migrations
  up, down,     \* per migration: number of commands its Up / Down script splits into, 0 = ""
  tableExists,  \* committed database: the metadata table exists
  rows,         \* committed database: migration_id values in the metadata table
  objs,         \* committed database: schema objects made by the scripts
  status,       \* Migration.Status of every migration of the collection
  pc,           \* position of the running call, "idle" between calls
  op,           \* the call that runs or ran last
  n,            \* argument of RollbackN
  list,         \* the slice returned by Migrations(status) in the running call
  i,            \* loop index into list (0-based as in the source)
  last,         \* lastMigration of RollbackN
  cur, dir,     \* arguments of the running ApplyMigration
  k,            \* index of the next command of the script
  tx,           \* "none" or "open": the transaction of ApplyMigration
  txRows, txObjs, \* what the open transaction sees
  amRet,        \* value returned by the last ApplyMigration
  createRet,    \* value returned by the last CreateMigrationsTable, "none" when not called
  ret,          \* value returned by the last call, "none" while it runs
  h,            \* history of the running call (observations only, never read by the code)
  ctor,         \* a run of NewMigratorWithMigrations: its argument, loop position, map and result
  mysql,        \* a call of MySQL.GetMigrationCommands: its argument and its result
  loader        \* a run of MigrationsFromPath: the glob result, loop position, map and result

vars == <<ids, up, down, tableExists, rows, objs, status, pc, op, n,
          list, i, last, cur, dir, k, tx, txRows, txObjs, amRet, createRet, ret, h,
          ctor, mysql, loader>>

\* What no call of a Migrator changes: its collection, and the runs of the
\* functions that build one.
config == <<ids, up, down, ctor, mysql, loader>>
db == <<tableExists, rows, objs>>
locals == <<list, i, last, cur, dir, k>>
txv == <<tx, txRows, txObjs>>

----------------------------------------------------------------------------
\* Pure helpers.

RECURSIVE SortAsc(_)
\* sort.Sort(uint64slice(ids)): the ids in ascending order.
SortAsc(S) ==
  IF S = {} THEN <<>>
  ELSE LET m == CHOOSE x \in S : \A y \in S : x <= y
       IN <<m>> \o SortAsc(S \ {m})

RECURSIVE SortDesc(_)
SortDesc(S) ==
  IF S = {} THEN <<>>
  ELSE LET m == CHOOSE x \in S : \A y \in S : x >= y
       IN <<m>> \o SortDesc(S \ {m})

Range(s) == {s[j] : j \in 1..Len(s)}

\* Migrations with the ids sorted the wrong way round.
Migrations_Descending(st, want) ==
  SortDesc({id \in DOMAIN st : want = -1 \/ st[id] = want})

\* Migrations that forgets the status filter.
Migrations_NoFilter(st, want) ==
  SortAsc(DOMAIN st)

\* Migrator.Migrations(status): the migrations of the given status, ascending by id.
Migrations(st, want) ==
  SortAsc({id \in DOMAIN st : want = -1 \/ st[id] = want})

\* getMigrationStatuses that also resets the status of a migration without a row.
GetStatuses_Refresh(st, S, rws) ==
  [id \in DOMAIN st |-> IF id \in S THEN (IF id \in rws THEN Active ELSE Inactive) ELSE st[id]]

\* getMigrationStatuses over the migrations S it got to: a row sets Active,
\* no row (sql.ErrNoRows) leaves the status as it is.
GetStatuses(st, S, rws) ==
  [id \in DOMAIN st |-> IF id \in S /\ id \in rws THEN Active ELSE st[id]]

\* A selection that falls back on the other direction's script when the
\* requested one is "".
Script_AnyDirection(id, d) ==
  IF d = "up" THEN (IF up[id] # 0 THEN up[id] ELSE down[id])
  ELSE (IF down[id] # 0 THEN down[id] ELSE up[id])

\* The script ApplyMigration selects: its number of commands, 0 for "".
Script(id, d) == IF d = "up" THEN up[id] ELSE down[id]

\* The effect of command c of the script of migration id on the schema objects.
ExecCmd(o, id, d, c) == IF d = "up" THEN o \cup {<<id, c>>} ELSE o \ {<<id, c>>}

\* The schema objects after the whole script.
AllCmds(o, id, d) ==
  IF d = "up" THEN o \cup {<<id, c>> : c \in 1..up[id]}
  ELSE o \ {<<id, c>> : c \in 1..down[id]}

\* MigrationLogInsertSql / MigrationLogDeleteSql on a set of rows.
LogRow(r, id, d) == IF d = "up" THEN r \cup {id} ELSE r \ {id}

\* The bookkeeping statement run on the database handle instead of the transaction.
ExecLog_OutsideTx(dbRows, tRows, id, d) ==
  [db |-> LogRow(dbRows, id, d), tx |-> tRows]

\* transaction.Exec(MigrationLogInsertSql / MigrationLogDeleteSql, migration.ID):
\* the committed rows and the transaction's rows after it.
ExecLog(dbRows, tRows, id, d) ==
  [db |-> dbRows, tx |-> LogRow(tRows, id, d)]

\* The status update that marks every committed migration Active.
CommitStatus_AlwaysActive(d) == Active

\* The status ApplyMigration sets after a successful commit.
CommitStatus(d) == IF d = "up" THEN Active ELSE Inactive

\* A status update made before the result of Commit is looked at.
StatusAfterCommit_Early(st, id, d, committed) ==
  [st EXCEPT ![id] = CommitStatus(d)]

\* The statuses after transaction.Commit(): a commit error returns before the
\* status is touched.
StatusAfterCommit(st, id, d, committed) ==
  IF committed THEN [st EXCEPT ![id] = CommitStatus(d)] ELSE st

\* An error path that reports the statement's error even when Rollback failed.
FailResult_ExecErrWins(err, rollbackFailed) == err

\* What an error path of ApplyMigration returns: the Rollback error if Rollback
\* failed, else the error of the statement.
FailResult(err, rollbackFailed) ==
  IF rollbackFailed THEN "RollbackErr" ELSE err

\* An ApplyMigration whose RowsAffected error path returns without Rollback.
RollsBack_NotOnRowsErr(err) == err # "RowsErr"

\* Every error path of ApplyMigration after Begin calls transaction.Rollback().
RollsBack(err) == TRUE

\* lastMigration computed as the first index to keep instead of the one before it.
LastMigration_OffByOne(len, num) == len - num

\* lastMigration := len(migrations) - 1 - n
LastMigration(len, num) == len - 1 - num

\* A loop that carries on after a failed ApplyMigration.
AfterApply_Continue(err) == "continue"

\* if err := m.ApplyMigration(...); err != nil { return err }
AfterApply(err) == IF err = "nil" THEN "continue" ELSE "return"

\* RollbackAll's count taken over all migrations.
RollbackAllCount_All(st) == Len(Migrations(st, -1))

\* RollbackAll: len(m.Migrations(Active)), taken before RollbackN synchronizes.
RollbackAllCount(st) == Len(Migrations(st, Active))

----------------------------------------------------------------------------
\* History record of a call.

\* What the next call keeps of the call before it: "again" for a Migrate right
\* after a Migrate that returned nil, "back" for a Migrate right after a rollback
\* call that returned nil.
After(o) ==
  IF o = "Migrate" /\ ret = "nil" /\ op = "Migrate" THEN "again"
  ELSE IF o = "Migrate" /\ ret = "nil" /\ op \in RollbackOps THEN "back"
  ELSE "none"

BlankHistory ==
  [ table0    |-> tableExists,   \* committed database and statuses when the call started
    rows0     |-> rows,
    objs0     |-> objs,
    status0   |-> status,
    after     |-> "none",
    prevAct   |-> {},            \* after = "back": the rollback's Active set after its
                                 \* synchronization, and the migrations it reversed
    prevDone  |-> {},
    act       |-> {},            \* Active set after this call's synchronization
    synced    |-> FALSE,         \* this call's synchronization completed without error
    tried     |-> <<>>,          \* migrations handed to ApplyMigration, in order
    done      |-> <<>>,          \* migrations whose transaction committed, in order
    execs     |-> 0,             \* script commands executed
    fault     |-> FALSE,         \* a database call of this call failed
    fatal     |-> FALSE,         \* the fatal-level log call was made
    execErr   |-> "none",        \* the statement error of ApplyMigration's error path
    rbFailed  |-> FALSE,         \* transaction.Rollback() failed on that path
    commitErr |-> FALSE,         \* transaction.Commit() failed
    begun     |-> 0,             \* transactions opened
    ended     |-> 0,             \* transactions committed or rolled back
    amRows0   |-> rows,          \* committed database and statuses when ApplyMigration
    amObjs0   |-> objs,          \* was entered
    amStatus0 |-> status ]

NewHistory(o, num) ==
  [BlankHistory EXCEPT
     !.after = After(o),
     !.prevAct = IF After(o) = "back" THEN h.act ELSE {},
     !.prevDone = IF After(o) = "back" THEN Range(h.done) ELSE {}]

InitHistory == BlankHistory

----------------------------------------------------------------------------
\* No run of NewMigratorWithMigrations is under observation.
CtorIdle == [migrations |-> <<>>, idx |-> 1, m |-> <<>>, ret |-> "none", migrator |-> "nil"]

\* No call of GetMigrationCommands is under observation.
SplitIdle == [SQL |-> <<>>, out |-> <<>>, called |-> FALSE]

\* No run of MigrationsFromPath is under observation.
LoadIdle == [matches |-> <<>>, idx |-> 1, migrations |-> <<>>, ret |-> "none", v |-> {}]

Init ==
  /\ ctor = CtorIdle
  /\ mysql = SplitIdle
  /\ loader = LoadIdle
  /\ ids \in SUBSET Ids
  /\ up \in [ids -> ScriptLens]
  /\ down \in [ids -> ScriptLens]
  /\ tableExists \in BOOLEAN
  /\ rows \in (IF tableExists THEN SUBSET ids ELSE {{}})
  /\ objs = UNION {{<<id, c>> : c \in 1..up[id]} : id \in rows}
  /\ status = [id \in ids |-> Inactive]     \* NewMigratorWithMigrations: m.Status = Inactive
  /\ pc = "idle" /\ op = "none" /\ n = 0
  /\ list = <<>> /\ i = 0 /\ last = 0 /\ cur = 0 /\ dir = "up" /\ k = 0
  /\ tx = "none" /\ txRows = {} /\ txObjs = {}
  /\ amRet = "none" /\ createRet = "none" /\ ret = "none"
  /\ h = InitHistory

\* The call returns r to its caller.
Return(r) ==
  /\ pc' = "idle"
  /\ ret' = r
  /\ list' = <<>> /\ i' = 0 /\ last' = 0 /\ cur' = 0 /\ dir' = "up" /\ k' = 0


\* A call starts: Migrate(), Rollback(), RollbackN(num) or RollbackAll().
Enter(o, num, first) ==
  /\ pc = "idle"
  /\ pc' = first
  /\ op' = o
  /\ n' = num
  /\ ret' = "none" /\ amRet' = "none" /\ createRet' = "none"
  /\ h' = NewHistory(o, num)
  /\ UNCHANGED <<config, db, status, locals, txv>>

----------------------------------------------------------------------------
\* Migrate

CallMigrate == Enter("Migrate", 0, "m_table")

\* MigrationTableExists: the row of the catalog query, sql.ErrNoRows, or an error.
MigrateTableExists ==
  /\ pc = "m_table"
  /\ \/ /\ Return("QueryErr")
        /\ h' = [h EXCEPT !.fault = TRUE]
     \/ /\ pc' = IF tableExists THEN "m_sync" ELSE "m_create"
        /\ UNCHANGED <<ret, locals, h>>
  /\ UNCHANGED <<config, db, status, op, n, txv, amRet, createRet>>

\* The value CreateMigrationsTable returns: nil, whether or not Exec failed.
CreateTableResult(execFailed) == "nil"

\* CreateMigrationsTable, and Migrate's test of what it returns.
MigrateCreateTable ==
  /\ pc = "m_create"
  /\ \E execFailed \in BOOLEAN, fatalExits \in BOOLEAN :
       IF execFailed /\ fatalExits
       THEN \* log.Logger.Fatalf: os.Exit(1)
            /\ pc' = "exited"
            /\ h' = [h EXCEPT !.fault = TRUE, !.fatal = TRUE]
            /\ UNCHANGED <<tableExists, createRet, ret, locals>>
       ELSE /\ tableExists' = ~execFailed
            /\ createRet' = CreateTableResult(execFailed)
            /\ ~execFailed => ~fatalExits
            /\ h' = [h EXCEPT !.fault = execFailed, !.fatal = execFailed]
            /\ IF createRet' # "nil"
               THEN Return(createRet')
               ELSE pc' = "m_sync" /\ UNCHANGED <<ret, locals>>
  /\ UNCHANGED <<config, rows, objs, status, op, n, txv, amRet>>

\* The outcomes of getMigrationStatuses: the migrations it got to before a query
\* failed (map iteration order is arbitrary), or all of them.  A query of a table
\* that does not exist fails.
SyncOutcomes ==
  {S \in SUBSET ids : (S = ids /\ tableExists) \/ S # ids \/ ids = {}}

SyncOk(S) == S = ids /\ (tableExists \/ ids = {})

SyncReached(S) == IF tableExists THEN S ELSE {}

\* getMigrationStatuses, then Migrations(Inactive).
MigrateSync ==
  /\ pc = "m_sync"
  /\ \E S \in SyncOutcomes :
       /\ status' = GetStatuses(status, SyncReached(S), rows)
       /\ IF SyncOk(S)
          THEN /\ list' = Migrations(status', Inactive)
               /\ i' = 0
               /\ pc' = "m_loop"
               /\ h' = [h EXCEPT !.synced = TRUE,
                                 !.act = {id \in ids : status'[id] = Active}]
               /\ UNCHANGED <<ret, last, cur, dir, k>>
          ELSE /\ Return("QueryErr")
               /\ h' = [h EXCEPT !.fault = TRUE]
  /\ UNCHANGED <<config, db, op, n, txv, amRet, createRet>>

\* for _, migration := range m.Migrations(Inactive): the next migration, or the end.
MigrateLoop ==
  /\ pc = "m_loop"
  /\ IF i >= Len(list)
     THEN /\ Return("nil")
          /\ UNCHANGED h
     ELSE /\ cur' = list[i + 1]
          /\ dir' = "up"
          /\ pc' = "am_start"
          /\ h' = [h EXCEPT !.tried = Append(@, list[i + 1]),
                            !.amRows0 = rows, !.amObjs0 = objs, !.amStatus0 = status]
          /\ UNCHANGED <<ret, list, i, last, k>>
  /\ UNCHANGED <<config, db, status, op, n, txv, amRet, createRet>>

\* Migrate after ApplyMigration returned.
MigrateAfterApply ==
  /\ pc = "am_ret" /\ op = "Migrate"
  /\ IF AfterApply(amRet) = "return"
     THEN Return(amRet)
     ELSE /\ i' = i + 1
          /\ pc' = "m_loop"
          /\ UNCHANGED <<ret, list, last, cur, dir, k>>
  /\ UNCHANGED <<config, db, status, op, n, txv, amRet, createRet, h>>

----------------------------------------------------------------------------
\* ApplyMigration

\* The script selection and DB.Begin.
ApplyStart ==
  /\ pc = "am_start"
  /\ IF Script(cur, dir) = 0
     THEN /\ amRet' = "InvalidMigrationType"
          /\ pc' = "am_ret"
          /\ UNCHANGED <<txv, k, h>>
     ELSE \/ /\ amRet' = "BeginErr"
             /\ pc' = "am_ret"
             /\ h' = [h EXCEPT !.fault = TRUE]
             /\ UNCHANGED <<txv, k>>
          \/ /\ tx' = "open" /\ txRows' = rows /\ txObjs' = objs
             /\ k' = 1
             /\ pc' = "am_exec"
             /\ amRet' = "none"
             /\ h' = [h EXCEPT !.begun = @ + 1]
  /\ UNCHANGED <<config, db, status, op, n, list, i, last, cur, dir, createRet, ret>>

\* The error path of a statement: transaction.Rollback(), whose error wins.
Fail(err) ==
  /\ IF RollsBack(err)
     THEN /\ \E rollbackFailed \in BOOLEAN :
               /\ amRet' = FailResult(err, rollbackFailed)
               /\ h' = [h EXCEPT !.fault = TRUE, !.ended = @ + 1,
                                 !.execErr = err, !.rbFailed = rollbackFailed]
          /\ tx' = "none" /\ txRows' = {} /\ txObjs' = {}
     ELSE /\ amRet' = err
          /\ h' = [h EXCEPT !.fault = TRUE, !.execErr = err]
          /\ UNCHANGED txv
  /\ pc' = "am_ret"

\* One command of the script: transaction.Exec and result.RowsAffected.
ApplyExec ==
  /\ pc = "am_exec"
  /\ \/ /\ Fail("ExecErr")
        /\ UNCHANGED k
     \/ /\ Fail("RowsErr")
        /\ UNCHANGED k
     \/ /\ txObjs' = ExecCmd(txObjs, cur, dir, k)
        /\ k' = k + 1
        /\ pc' = IF k + 1 > Script(cur, dir) THEN "am_log" ELSE "am_exec"
        /\ h' = [h EXCEPT !.execs = @ + 1]
        /\ UNCHANGED <<tx, txRows, amRet>>
  /\ UNCHANGED <<config, db, status, op, n, list, i, last, cur, dir, createRet, ret>>

\* The bookkeeping statement.
ApplyLog ==
  /\ pc = "am_log"
  /\ \/ /\ Fail("LogErr")
        /\ UNCHANGED rows
     \/ /\ LET r == ExecLog(rows, txRows, cur, dir)
           IN rows' = r.db /\ txRows' = r.tx
        /\ pc' = "am_commit"
        /\ UNCHANGED <<tx, txObjs, amRet, h>>
  /\ UNCHANGED <<config, tableExists, objs, status, op, n, locals, createRet, ret>>

\* transaction.Commit() and the status update.
ApplyCommit ==
  /\ pc = "am_commit"
  /\ \/ /\ amRet' = "CommitErr"
        /\ h' = [h EXCEPT !.fault = TRUE, !.ended = @ + 1, !.commitErr = TRUE]
        /\ status' = StatusAfterCommit(status, cur, dir, FALSE)
        /\ UNCHANGED <<rows, objs>>
     \/ /\ rows' = txRows /\ objs' = txObjs
        /\ status' = StatusAfterCommit(status, cur, dir, TRUE)
        /\ amRet' = "nil"
        /\ h' = [h EXCEPT !.done = Append(@, cur), !.ended = @ + 1]
  /\ tx' = "none" /\ txRows' = {} /\ txObjs' = {}
  /\ pc' = "am_ret"
  /\ UNCHANGED <<config, tableExists, op, n, locals, createRet, ret>>

----------------------------------------------------------------------------
\* Rollback, RollbackN, RollbackAll

\* The arguments a caller passes to RollbackN (n int): a negative one, zero, up to
\* the size of the collection, and one more.
NSet == (0 - 1)..(MaxId + 1)

CallRollbackN == \E num \in NSet : Enter("RollbackN", num, "r_sync")

\* Rollback: return m.RollbackN(1)
RollbackCount == 1

CallRollback == Enter("Rollback", RollbackCount, "r_sync")

CallRollbackAll == Enter("RollbackAll", RollbackAllCount(status), "r_sync")

\* RollbackN: getMigrationStatuses, Migrations(Active), the empty-list return and
\* the loop bounds.
RollbackSync ==
  /\ pc = "r_sync"
  /\ \E S \in SyncOutcomes :
       /\ status' = GetStatuses(status, SyncReached(S), rows)
       /\ IF SyncOk(S)
          THEN LET migrations == Migrations(status', Active)
               IN /\ h' = [h EXCEPT !.synced = TRUE,
                                    !.act = {id \in ids : status'[id] = Active}]
                  /\ IF Len(migrations) = 0
                     THEN Return("nil")
                     ELSE /\ list' = migrations
                          /\ last' = LastMigration(Len(migrations), n)
                          /\ i' = Len(migrations) - 1
                          /\ pc' = "r_loop"
                          /\ UNCHANGED <<ret, cur, dir, k>>
          ELSE /\ Return("QueryErr")
               /\ h' = [h EXCEPT !.fault = TRUE]
  /\ UNCHANGED <<config, db, op, n, txv, amRet, createRet>>

RollbackType_Up == "up"

\* The direction RollbackN hands to ApplyMigration: downMigration.
RollbackType == "down"

\* for i := len(migrations) - 1; i != lastMigration; i-- : migrations[i] is
\* reversed, and an index outside the slice is a run-time panic.
RollbackLoop ==
  /\ pc = "r_loop"
  /\ IF i = last
     THEN /\ Return("nil")
          /\ UNCHANGED h
     ELSE IF i < 0 \/ i >= Len(list)
     THEN /\ pc' = "panicked"
          /\ ret' = "panic"
          /\ UNCHANGED <<locals, h>>
     ELSE /\ cur' = list[i + 1]
          /\ dir' = RollbackType
          /\ pc' = "am_start"
          /\ h' = [h EXCEPT !.tried = Append(@, list[i + 1]),
                            !.amRows0 = rows, !.amObjs0 = objs, !.amStatus0 = status]
          /\ UNCHANGED <<ret, list, i, last, k>>
  /\ UNCHANGED <<config, db, status, op, n, txv, amRet, createRet>>

\* RollbackN after ApplyMigration returned.
RollbackAfterApply ==
  /\ pc = "am_ret" /\ op \in RollbackOps
  /\ IF AfterApply(amRet) = "return"
     THEN Return(amRet)
     ELSE /\ i' = i - 1
          /\ pc' = "r_loop"
          /\ UNCHANGED <<ret, list, last, cur, dir, k>>
  /\ UNCHANGED <<config, db, status, op, n, txv, amRet, createRet, h>>

----------------------------------------------------------------------------
\* Another Migrator on the same database and the same collection commits one
\* ApplyMigration between two calls of this one: up for a migration without a
\* row, down for one with a row.
OtherMigrator ==
  /\ pc = "idle"
  /\ tableExists
  /\ \E id \in ids :
       LET d == IF id \in rows THEN "down" ELSE "up"
       IN /\ Script(id, d) > 0
          /\ rows' = LogRow(rows, id, d)
          /\ objs' = AllCmds(objs, id, d)
  /\ op' = "Other"
  /\ ret' = "none" /\ amRet' = "none" /\ createRet' = "none"
  /\ n' = 0
  /\ h' = [BlankHistory EXCEPT !.rows0 = rows', !.objs0 = objs',
                               !.amRows0 = rows', !.amObjs0 = objs']
  /\ UNCHANGED <<config, tableExists, status, pc, locals, txv>>

----------------------------------------------------------------------------
Next ==
  \/ CallMigrate
  \/ MigrateTableExists
  \/ MigrateCreateTable
  \/ MigrateSync
  \/ MigrateLoop
  \/ MigrateAfterApply
  \/ ApplyStart
  \/ ApplyExec
  \/ ApplyLog
  \/ ApplyCommit
  \/ CallRollback
  \/ CallRollbackN
  \/ CallRollbackAll
  \/ RollbackSync
  \/ RollbackLoop
  \/ RollbackAfterApply
  \/ OtherMigrator

Spec == Init /\ [][Next]_vars

TypeOK ==
  /\ ids \subseteq Ids
  /\ rows \subseteq Ids
  /\ status \in [ids -> {Inactive, Active}]
  /\ tx \in {"none", "open"}
  /\ dir \in Dirs
  /\ pc \in {"idle", "m_table", "m_create", "m_sync", "m_loop", "am_start", "am_exec",
             "am_log", "am_commit", "am_ret", "r_sync", "r_loop", "exited", "panicked"}

----------------------------------------------------------------------------
\* Observations the claims are stated over.

ActiveSet == {id \in ids : status[id] = Active}

\* The running or last call is a RollbackN, entered directly or through Rollback.
InRollbackN == op \in {"Rollback", "RollbackN"}

\* ApplyMigration is between its entry and its return.
InApply == pc \in {"am_start", "am_exec", "am_log", "am_commit"}

Ascending(s) == \A a, b \in 1..Len(s) : a < b => s[a] < s[b]

Descending(s) == \A a, b \in 1..Len(s) : a < b => s[a] > s[b]

IsPrefix(s, t) == Len(s) <= Len(t) /\ \A j \in 1..Len(s) : s[j] = t[j]

\* The objects the up script of migration id makes, the down script drops.
ObjsOf(id, d) == {<<id, c>> : c \in 1..Script(id, d)}

----------------------------------------------------------------------------
\* C1: Migrate() applies the migrations that are Inactive after synchronization in
\* strictly ascending id order: the migrations handed to ApplyMigration have
\* ascending ids, each one's statements run only once every one before it has
\* committed, and a Migrate() that returns nil has committed exactly the Inactive
\* ones, lowest id first.
C1_MigrateAscending ==
  op = "Migrate" =>
    /\ Ascending(h.tried)
    /\ IsPrefix(h.done, h.tried)
    /\ Range(h.tried) \subseteq ids \ h.act
    /\ (tx = "open" => h.tried = Append(h.done, cur))
    /\ (pc = "idle" /\ ret = "nil" =>
          /\ Range(h.done) = ids \ h.act
          /\ Len(h.done) = Cardinality(ids \ h.act))

\* A second migration's statements run after the first one has committed.
C1_Witness ==
  /\ op = "Migrate" /\ tx = "open" /\ pc = "am_exec" /\ k = 2
  /\ Len(h.done) = 1 /\ h.done[1] < cur

\* C2: ApplyMigration is all-or-nothing: until it returns nil the committed
\* database is what it was when ApplyMigration was entered, whichever statement
\* failed; when it returns nil the committed database holds the effect of every
\* statement of the script together with the metadata row change.
C2_ApplyAtomic ==
  /\ InApply => rows = h.amRows0 /\ objs = h.amObjs0
  /\ (pc = "am_ret" /\ amRet # "nil") => rows = h.amRows0 /\ objs = h.amObjs0
  /\ (pc = "am_ret" /\ amRet = "nil" /\ dir = "up") =>
        /\ rows = h.amRows0 \cup {cur}
        /\ objs = h.amObjs0 \cup ObjsOf(cur, "up")
  /\ (pc = "am_ret" /\ amRet = "nil" /\ dir = "down") =>
        /\ rows = h.amRows0 \ {cur}
        /\ objs = h.amObjs0 \ ObjsOf(cur, "down")

\* The bookkeeping statement failed after every statement of the script had run.
C2_Witness ==
  /\ pc = "am_ret" /\ amRet = "LogErr" /\ k > Script(cur, dir)
  /\ h.execs >= MaxCmds

\* C3: Migrate() is idempotent: a Migrate() called right after a Migrate() that
\* returned nil hands no migration to ApplyMigration, executes no script command,
\* opens no transaction and changes no metadata row, and it returns nil unless one
\* of its own database calls fails.
C3_MigrateIdempotent ==
  (op = "Migrate" /\ h.after = "again") =>
    /\ h.tried = <<>>
    /\ h.execs = 0
    /\ h.begun = 0
    /\ rows = h.rows0
    /\ objs = h.objs0
    /\ (pc = "idle" => ret = "nil" \/ (ret = "QueryErr" /\ h.fault))
    /\ (pc = "exited" => h.fault)

\* The second Migrate() of a collection of two applied migrations has returned nil.
C3_Witness ==
  /\ op = "Migrate" /\ h.after = "again" /\ pc = "idle" /\ ret = "nil"
  /\ Cardinality(ids) >= 2 /\ ids \subseteq rows /\ h.rows0 = rows

\* C4: RollbackN(n) with n greater than the number of Active migrations rolls back
\* all Active migrations, returns no error, never visits an index outside the
\* Active list and leaves zero Active migrations.
C4_RollbackBeyondActive ==
  (InRollbackN /\ h.synced /\ n > Cardinality(h.act)) =>
    /\ pc # "panicked"
    /\ (pc = "r_loop" /\ i # last => i \in 0..(Len(list) - 1))
    /\ (pc = "idle" /\ ~h.fault /\ (\A id \in h.act : down[id] > 0) =>
          ret = "nil" /\ ActiveSet = {} /\ Range(h.done) = h.act)

\* The highest num ids of S, highest first.
TopDescending(S, num) == SubSeq(SortDesc(S), 1, num)

\* C5: RollbackN(n) with 1 <= n <= count of Active migrations reverses the n Active
\* migrations with the highest ids, one at a time in strictly descending id order,
\* each in the down direction, and leaves every other migration untouched (its
\* status, its metadata row and its schema objects); Rollback() is RollbackN(1).
C5_RollbackTopN ==
  /\ op = "Rollback" => n = 1
  /\ (InRollbackN /\ h.synced /\ n >= 1 /\ n <= Cardinality(h.act)) =>
       /\ Descending(h.tried)
       /\ IsPrefix(h.done, h.tried)
       /\ IsPrefix(h.tried, TopDescending(h.act, n))
       /\ (InApply \/ pc = "am_ret" => dir = "down")
       /\ (tx = "open" => h.tried = Append(h.done, cur))
       /\ (pc = "idle" /\ ret = "nil" =>
             /\ h.done = TopDescending(h.act, n)
             /\ \A id \in Range(h.done) : status[id] = Inactive /\ id \notin rows
             /\ \A id \in ids \ Range(h.done) :
                  /\ status[id] = (IF id \in h.act THEN Active ELSE Inactive)
                  /\ (id \in rows <=> id \in h.rows0)
                  /\ (ObjsOf(id, "up") \cap objs = ObjsOf(id, "up") \cap h.objs0))

\* RollbackN(1) on two Active migrations has reversed the higher one only.
C5_Witness ==
  /\ op = "RollbackN" /\ n = 1 /\ Cardinality(h.act) = 2
  /\ pc = "idle" /\ ret = "nil" /\ Len(h.done) = 1
  /\ \E id \in ids : id < h.done[1] /\ status[id] = Active /\ id \in rows

\* C6: whenever RollbackAll() returns nil, no migration of the collection has a row
\* in the metadata table, whatever the in-memory statuses were when it was called.
C6_RollbackAllClears ==
  (op = "RollbackAll" /\ pc = "idle" /\ ret = "nil") => rows \cap ids = {}

\* C7 as claimed: a successful RollbackN(n) followed immediately by a successful
\* Migrate() re-applies exactly the migrations that were reversed, and the
\* resulting Active set equals the Active set before the rollback.
C7_RoundTripExact ==
  (op = "Migrate" /\ h.after = "back" /\ pc = "idle" /\ ret = "nil") =>
    /\ Range(h.done) = h.prevDone
    /\ ActiveSet = h.prevAct

\* C7 amended: a successful rollback call followed immediately by a successful
\* Migrate() re-applies the reversed migrations together with every migration that
\* was Inactive before the rollback, each once, and leaves every migration Active;
\* when no migration was Inactive before the rollback, it re-applies exactly the
\* reversed ones and the Active set equals the one before the rollback.
C7_RoundTrip ==
  (op = "Migrate" /\ h.after = "back" /\ pc = "idle" /\ ret = "nil") =>
    /\ Range(h.done) = h.prevDone \cup (ids \ h.prevAct)
    /\ Len(h.done) = Cardinality(Range(h.done))
    /\ ActiveSet = ids
    /\ (h.prevAct = ids => Range(h.done) = h.prevDone /\ ActiveSet = h.prevAct)

\* Migrate() right after a rollback that reversed one of two Active migrations has
\* re-applied that one.
C7_Witness ==
  /\ op = "Migrate" /\ h.after = "back" /\ pc = "idle" /\ ret = "nil"
  /\ h.prevAct = ids /\ Cardinality(ids) = 2
  /\ Cardinality(h.prevDone) = 1 /\ Range(h.done) = h.prevDone

\* C8: Migrate() aborts on the first failing migration: a failed ApplyMigration is
\* the last one of the call, and when Migrate() returns a non-nil error no migration
\* with a higher id than the failing one was attempted, the migrations committed
\* earlier in the call have their rows and status Active, and the metadata table
\* holds exactly the rows it held before the call plus those of the migrations
\* committed before the failure.
C8_MigrateAbortsOnFailure ==
  op = "Migrate" =>
    /\ Len(h.tried) <= Len(h.done) + 1
    /\ (pc = "idle" /\ Len(h.tried) = Len(h.done) + 1 => ret # "nil")
    /\ (pc = "idle" /\ ret # "nil" =>
          /\ IsPrefix(h.done, h.tried)
          /\ \A j \in 1..Len(h.tried) : h.tried[j] <= h.tried[Len(h.tried)]
          /\ \A id \in Range(h.done) : id \in rows /\ status[id] = Active
          /\ rows = h.rows0 \cup Range(h.done)
          /\ (Len(h.tried) = Len(h.done) => h.done = <<>>))

\* Migrate() has returned the error of its second migration, the first one stays
\* committed.
C8_Witness ==
  /\ op = "Migrate" /\ pc = "idle" /\ ret = "ExecErr"
  /\ Len(h.done) = 1 /\ Len(h.tried) = 2
  /\ h.done[1] \in rows /\ h.tried[2] \notin rows /\ status[h.tried[2]] = Inactive

\* C9: after a status synchronization that completes without error, for every
\* migration of the collection the in-memory status is Active if and only if a row
\* with its id exists in the metadata table.
C9_SyncMirrorsTable ==
  (h.synced /\ h.tried = <<>> /\ pc \in {"m_loop", "r_loop", "idle"}) =>
    \A id \in ids : status[id] = Active <=> id \in rows

\* C10: when the metadata-table creation statement fails, CreateMigrationsTable()
\* makes the fatal-level log call and returns a non-nil error to its caller, also
\* when Fatalf returns, so Migrate() stops with that error.
C10_CreateFailureReturned ==
  (op = "Migrate" /\ h.fatal /\ pc # "exited") =>
    /\ createRet \notin {"nil", "none"}
    /\ pc = "idle"
    /\ ret = createRet

\* The number of commands of the script of migration id in direction d, 0 for "".
ScriptLen(id, d) == IF d = "up" THEN up[id] ELSE down[id]

\* C11: ApplyMigration with a direction whose script is "" fails with
\* InvalidMigrationType before any transaction is opened: it opens no transaction,
\* executes no command, and leaves the committed database and the in-memory
\* statuses as they were; a rollback that reaches an Active migration whose down
\* script is "" returns that error.
C11_EmptyScriptRejected ==
  /\ (pc = "am_ret" /\ ScriptLen(cur, dir) = 0) =>
       /\ amRet = "InvalidMigrationType"
       /\ tx = "none"
       /\ h.begun = Len(h.done) /\ h.ended = Len(h.done)
       /\ h.execs = MaxCmds * Len(h.done)
       /\ rows = h.amRows0 /\ objs = h.amObjs0 /\ status = h.amStatus0
  /\ (op \in RollbackOps /\ pc = "idle" /\ h.tried # <<>>
        /\ down[h.tried[Len(h.tried)]] = 0) =>
       /\ ret = "InvalidMigrationType"
       /\ status[h.tried[Len(h.tried)]] = Active
       /\ rows = h.rows0 \ Range(h.done)

\* A rollback has reversed one migration and then reached an Active migration with
\* an empty down script.
C11_Witness ==
  /\ op \in RollbackOps /\ pc = "am_ret" /\ dir = "down" /\ down[cur] = 0
  /\ amRet = "InvalidMigrationType" /\ Len(h.done) = 1 /\ cur \in rows

\* C12: when the commit of a migration's transaction fails, ApplyMigration returns
\* the commit error as it is and leaves every in-memory status as it was before
\* the call, in both directions; when the commit succeeds the status becomes Active
\* (up) or Inactive (down).
C12_CommitFailureKeepsStatus ==
  /\ (pc \in {"am_ret", "idle"} /\ h.commitErr) =>
       /\ status = h.amStatus0
       /\ rows = h.amRows0 /\ objs = h.amObjs0
       /\ (pc = "am_ret" => amRet = "CommitErr")
       /\ (pc = "idle" => ret = "CommitErr")
  /\ (pc = "am_ret" /\ amRet = "nil") =>
       /\ status[cur] = (IF dir = "up" THEN Active ELSE Inactive)
       /\ \A id \in ids \ {cur} : status[id] = h.amStatus0[id]

\* The commit of a down migration has failed: its status is still Active.
C12_Witness ==
  /\ pc = "am_ret" /\ h.commitErr /\ amRet = "CommitErr"
  /\ dir = "down" /\ status[cur] = Active /\ cur \in rows

\* C13: when a statement or the bookkeeping statement fails inside ApplyMigration,
\* the transaction is rolled back and the error of the statement is returned; if
\* the rollback itself fails, the rollback error is returned in its place.
C13_RollbackErrorWins ==
  (pc \in {"am_ret", "idle"} /\ h.execErr # "none") =>
    /\ tx = "none"
    /\ h.ended = h.begun
    /\ rows = h.amRows0 /\ objs = h.amObjs0 /\ status = h.amStatus0
    /\ LET e == IF h.rbFailed THEN "RollbackErr" ELSE h.execErr
       IN /\ (pc = "am_ret" => amRet = e)
          /\ (pc = "idle" => ret = e)

\* The bookkeeping statement failed and so did the rollback.
C13_Witness ==
  /\ pc = "am_ret" /\ h.execErr = "LogErr" /\ h.rbFailed /\ amRet = "RollbackErr"

\* C18: RollbackN(n) aborts on the first reversal that fails: a failed ApplyMigration
\* is the last one of the call, and when the call returns a non-nil error no
\* migration with a lower id than the failing one was attempted, the migrations
\* reversed earlier in the call stay reversed (no row, status Inactive), and the
\* failing one has its row as before the call and its status Active.
C18_RollbackAbortsOnFailure ==
  op \in RollbackOps =>
    /\ Len(h.tried) <= Len(h.done) + 1
    /\ (pc = "idle" /\ Len(h.tried) = Len(h.done) + 1 => ret # "nil")
    /\ (pc = "idle" /\ ret \notin {"nil", "panic"} =>
          /\ IsPrefix(h.done, h.tried)
          /\ \A j \in 1..Len(h.tried) : h.tried[j] >= h.tried[Len(h.tried)]
          /\ \A id \in Range(h.done) : id \notin rows /\ status[id] = Inactive
          /\ rows = h.rows0 \ Range(h.done)
          /\ (Len(h.tried) = Len(h.done) + 1 =>
                LET f == h.tried[Len(h.tried)]
                IN /\ status[f] = Active
                   /\ (f \in rows <=> f \in h.rows0))
          /\ (Len(h.tried) = Len(h.done) => h.done = <<>>))

\* A rollback of two migrations has reversed the higher one and returned the error
\* of the lower one, which keeps its row.
C18_Witness ==
  /\ op = "RollbackN" /\ n = 2 /\ pc = "idle" /\ ret = "LogErr"
  /\ Len(h.done) = 1 /\ Len(h.tried) = 2
  /\ h.tried[2] < h.done[1]
  /\ h.tried[2] \in rows /\ status[h.tried[2]] = Active
  /\ h.done[1] \notin rows /\ h.done[1] \in h.rows0

\* C19: whenever Migrate() returns nil, every migration of the collection has a row
\* in the metadata table and in-memory status Active.
C19_MigrateNilMeansAllApplied ==
  (op = "Migrate" /\ pc = "idle" /\ ret = "nil") =>
    \A id \in ids : id \in rows /\ status[id] = Active

\* C20: every transaction ApplyMigration opens is ended exactly once, by Commit or
\* by Rollback, before ApplyMigration returns, on every path; at no point of any
\* sequence of calls is more than one transaction open.
C20_OneTransaction ==
  /\ h.begun - h.ended = (IF tx = "open" THEN 1 ELSE 0)
  /\ (tx = "open" <=> pc \in {"am_exec", "am_log", "am_commit"})
  /\ h.begun <= Len(h.tried)
  /\ (pc \in {"am_ret", "idle", "panicked", "exited"} => h.ended = h.begun)

\* The second transaction of a call was rolled back after a RowsAffected error.
C20_Witness ==
  /\ pc = "am_ret" /\ h.execErr = "RowsErr" /\ tx = "none"
  /\ h.begun = 2 /\ h.ended = 2

----------------------------------------------------------------------------
\* NewMigratorWithMigrations(db, adapter, migrations).
\*
\* ctor.migrations is the slice argument (the Migration values its elements point
\* to, no two elements the same pointer), ctor.idx the position of the range loop,
\* ctor.m the map migrator.migrations (id -> position of the Migration it holds),
\* ctor.ret the returned error ("none" while running) and ctor.migrator the
\* returned *Migrator ("nil" or "migrator").

Names == {"", "foo"}
MigrationValues == [ID : 0..MaxId, Name : Names, Status : {Inactive, Active}]
MigrationSlices == UNION {[1..l -> MigrationValues] : l \in 0..MaxMigs}

Validate_NoNameCheck(m) ==
  IF m.ID = 0 THEN "ErrInvalidMigration" ELSE "nil"

\* Migration.Validate.
Validate(m) ==
  IF m.ID = 0 THEN "ErrInvalidMigration"
  ELSE IF m.Name = "" THEN "ErrInvalidMigration"
  ELSE "nil"

\* The Migrator variables while no Migrator exists.
NoMigrator ==
  /\ ids = {} /\ up = <<>> /\ down = <<>>
  /\ tableExists = FALSE /\ rows = {} /\ objs = {}
  /\ status = <<>>
  /\ pc = "idle" /\ op = "none" /\ n = 0
  /\ list = <<>> /\ i = 0 /\ last = 0 /\ cur = 0 /\ dir = "up" /\ k = 0
  /\ tx = "none" /\ txRows = {} /\ txObjs = {}
  /\ amRet = "none" /\ createRet = "none" /\ ret = "none"
  /\ h = InitHistory

migratorVars == <<ids, up, down, tableExists, rows, objs, status, pc, op, n,
                  list, i, last, cur, dir, k, tx, txRows, txObjs, amRet, createRet, ret, h>>

CtorInit ==
  /\ NoMigrator
  /\ mysql = SplitIdle
  /\ loader = LoadIdle
  /\ \E sl \in MigrationSlices :
       ctor = [migrations |-> sl, idx |-> 1, m |-> <<>>, ret |-> "none", migrator |-> "nil"]

\* One iteration of the range loop: force the status, validate, look the id up,
\* store.
CtorLoop ==
  /\ ctor.ret = "none"
  /\ ctor.idx <= Len(ctor.migrations)
  /\ LET j == ctor.idx
         forced == [ctor.migrations EXCEPT ![j].Status = Inactive]
         mg == forced[j]
     IN IF Validate(mg) # "nil"
        THEN ctor' = [ctor EXCEPT !.migrations = forced, !.ret = Validate(mg)]
        ELSE IF mg.ID \in DOMAIN ctor.m
        THEN ctor' = [ctor EXCEPT !.migrations = forced, !.ret = "ErrDuplicateMigration"]
        ELSE ctor' = [ctor EXCEPT !.migrations = forced, !.idx = j + 1,
                                  !.m = [id \in DOMAIN ctor.m \cup {mg.ID} |->
                                           IF id = mg.ID THEN j ELSE ctor.m[id]]]
  /\ UNCHANGED <<migratorVars, mysql, loader>>

\* The loop is over: return migrator, nil.
CtorReturn ==
  /\ ctor.ret = "none"
  /\ ctor.idx > Len(ctor.migrations)
  /\ ctor' = [ctor EXCEPT !.ret = "nil", !.migrator = "migrator"]
  /\ UNCHANGED <<migratorVars, mysql, loader>>

CtorNext ==
  \/ CtorLoop
  \/ CtorReturn

CtorSpec == CtorInit /\ [][CtorNext]_vars

\* Observations on the argument of the constructor.
CtorValid(j) == ctor.migrations[j].ID # 0 /\ ctor.migrations[j].Name # ""
CtorRepeats(j) == \E l \in 1..(j - 1) : ctor.migrations[l].ID = ctor.migrations[j].ID
CtorAllValid == \A j \in 1..Len(ctor.migrations) : CtorValid(j)
CtorDistinct == \A j \in 1..Len(ctor.migrations) : ~CtorRepeats(j)
CtorOffenders == {j \in 1..Len(ctor.migrations) : ~CtorValid(j) \/ CtorRepeats(j)}
CtorFirstOffender == CHOOSE j \in CtorOffenders : \A l \in CtorOffenders : j <= l

\* What the constructor does whatever the ids: a Migrator exactly for valid,
\* pairwise distinct migrations, holding exactly their ids, all Inactive.
CtorContract ==
  ctor.ret # "none" =>
    /\ (ctor.ret = "nil" <=> CtorAllValid /\ CtorDistinct)
    /\ (ctor.migrator = "migrator" <=> ctor.ret = "nil")
    /\ (ctor.ret = "nil" =>
          /\ DOMAIN ctor.m = {ctor.migrations[j].ID : j \in 1..Len(ctor.migrations)}
          /\ \A id \in DOMAIN ctor.m : ctor.migrations[ctor.m[id]].ID = id
          /\ \A j \in 1..Len(ctor.migrations) : ctor.migrations[j].Status = Inactive)

\* C14 as stated: NewMigratorWithMigrations returns a Migrator if and only if every
\* supplied migration has id # 0 and a non-empty name and all ids are pairwise
\* distinct; a repeated id fails with Duplicate-Migration and returns no Migrator;
\* on success the collection holds exactly the supplied ids, all Inactive.
C14_RepeatedIdIsDuplicate ==
  /\ CtorContract
  /\ (ctor.ret # "none" /\ ~CtorDistinct =>
        ctor.ret = "ErrDuplicateMigration" /\ ctor.migrator = "nil")

\* C14, amended: the same, but the error is decided by the first migration of the
\* slice that is invalid or repeats an earlier id: Invalid-Migration if it is
\* invalid, Duplicate-Migration otherwise; so a repeated id fails with
\* Duplicate-Migration when no invalid migration comes before its second
\* occurrence and that occurrence is itself valid.
C14_FirstOffenderDecides ==
  /\ CtorContract
  /\ (ctor.ret \notin {"none", "nil"} =>
        /\ ctor.migrator = "nil"
        /\ ctor.idx = CtorFirstOffender
        /\ ctor.ret = (IF CtorValid(CtorFirstOffender) THEN "ErrDuplicateMigration"
                       ELSE "ErrInvalidMigration"))
  /\ (ctor.ret # "none" /\ CtorAllValid /\ ~CtorDistinct =>
        ctor.ret = "ErrDuplicateMigration")

\* Two valid migrations with the same id were supplied and the constructor
\* returned Duplicate-Migration and no Migrator.
C14_Witness ==
  /\ Len(ctor.migrations) = 2
  /\ ctor.migrations[1].ID = ctor.migrations[2].ID
  /\ CtorAllValid
  /\ ctor.ret = "ErrDuplicateMigration" /\ ctor.migrator = "nil"

----------------------------------------------------------------------------
\* MySQL.GetMigrationCommands(SQL).  A string is the sequence of its characters.

DelimiterPrefix == <<"d", "e", "l", "i", "m", "i", "t", "e", "r", " ">>
DefaultDelimiter == <<";">>
Newline == <<"\n">>

\* strings.HasPrefix.
HasPrefix(s, prefix) ==
  Len(s) >= Len(prefix) /\ SubSeq(s, 1, Len(prefix)) = prefix

\* strings.Index for a non-empty sep, as a position from 1; 0 when sep is not in s.
Index(s, sep) ==
  LET at == {p \in 1..(Len(s) - Len(sep) + 1) : SubSeq(s, p, p + Len(sep) - 1) = sep}
  IN IF at = {} THEN 0 ELSE CHOOSE p \in at : \A q \in at : p <= q

\* strings.SplitN(s, sep, 2).
SplitN2(s, sep) ==
  LET m == Index(s, sep)
  IN IF m = 0 THEN <<s>>
     ELSE <<SubSeq(s, 1, m - 1), SubSeq(s, m + Len(sep), Len(s))>>

\* unicode.IsSpace on the characters below U+0080.
IsSpace(c) == c \in {" ", "\t", "\n", "\r", "\f"}

RECURSIVE TrimLeft(_)
TrimLeft(s) ==
  IF s # <<>> /\ IsSpace(s[1]) THEN TrimLeft(Tail(s)) ELSE s

RECURSIVE TrimRight(_)
TrimRight(s) ==
  IF s # <<>> /\ IsSpace(s[Len(s)]) THEN TrimRight(SubSeq(s, 1, Len(s) - 1)) ELSE s

\* strings.TrimSpace.
TrimSpace(s) == TrimRight(TrimLeft(s))

Unquote_Never(s) == [err |-> TRUE, val |-> <<>>]

\* strconv.Unquote on a string without a backslash or a back quote: a
\* double-quoted literal gives its inside, a single-quoted one its single
\* character; anything else is a syntax error.
Unquote(s) ==
  LET quote == s[1]
      inside == SubSeq(s, 2, Len(s) - 1)
  IN IF Len(s) < 2 \/ quote # s[Len(s)] \/ quote \notin {"\"", "'"}
     THEN [err |-> TRUE, val |-> <<>>]
     ELSE IF (\E p \in 1..Len(inside) : inside[p] \in {quote, "\n"})
     THEN [err |-> TRUE, val |-> <<>>]
     ELSE IF quote = "'" /\ Len(inside) # 1
     THEN [err |-> TRUE, val |-> <<>>]
     ELSE [err |-> FALSE, val |-> inside]

RECURSIVE Split(_, _)
\* strings.Split: an empty sep explodes s into its characters.
Split(s, sep) ==
  IF sep = <<>> THEN [p \in 1..Len(s) |-> <<s[p]>>]
  ELSE LET m == Index(s, sep)
       IN IF m = 0 THEN <<s>>
          ELSE <<SubSeq(s, 1, m - 1)>> \o Split(SubSeq(s, m + Len(sep), Len(s)), sep)

GetMigrationCommands(SQL) ==
  IF HasPrefix(SQL, DelimiterPrefix)
  THEN LET contentSplit == SplitN2(SubSeq(SQL, Len(DelimiterPrefix) + 1, Len(SQL)), Newline)
           trimmed == TrimSpace(contentSplit[1])
           rest == IF Len(contentSplit) > 1 THEN contentSplit[2] ELSE <<>>
           delimiterUnquoted == Unquote(trimmed)
           delimiter == IF delimiterUnquoted.err THEN trimmed ELSE delimiterUnquoted.val
       IN Split(rest, delimiter)
  ELSE Split(SQL, DefaultDelimiter)

\* The scripts the function is run on: with or without the prefix, any text of
\* up to MaxBody characters after it, and the script of the example.
BodyChars == {";", "#", "\n", " ", "\"", "'"}
Bodies == UNION {[1..l -> BodyChars] : l \in 0..MaxBody}
ExampleScript ==
  <<"d", "e", "l", "i", "m", "i", "t", "e", "r", " ", "#", "\n", "C", "R",
    "E", "A", "T", "E", " ", "T", "A", "B", "L", "E", " ", "t", "(", "x", " ",
    "i", "n", "t", ")", "#", "C", "R", "E", "A", "T", "E", " ", "T", "A", "B",
    "L", "E", " ", "u", "(", "y", " ", "i", "n", "t", ")", "#">>
Scripts == {head \o body : head \in {<<>>, DelimiterPrefix}, body \in Bodies} \cup {ExampleScript}

SplitInit ==
  /\ NoMigrator
  /\ ctor = CtorIdle
  /\ loader = LoadIdle
  /\ \E sql \in Scripts : mysql = [SQL |-> sql, out |-> <<>>, called |-> FALSE]

SplitCall ==
  /\ ~mysql.called
  /\ mysql' = [mysql EXCEPT !.out = GetMigrationCommands(mysql.SQL), !.called = TRUE]
  /\ UNCHANGED <<migratorVars, ctor, loader>>

SplitNext == SplitCall

SplitSpec == SplitInit /\ [][SplitNext]_vars

\* Observations on a call of GetMigrationCommands.

RECURSIVE Join(_, _)
\* strings.Join.
Join(parts, sep) ==
  IF parts = <<>> THEN <<>>
  ELSE IF Len(parts) = 1 THEN parts[1]
  ELSE parts[1] \o sep \o Join(Tail(parts), sep)

Contains(s, sub) ==
  \E p \in 1..(Len(s) - Len(sub) + 1) : SubSeq(s, p, p + Len(sub) - 1) = sub

HasDirective == HasPrefix(mysql.SQL, DelimiterPrefix)
AfterPrefix == SubSeq(mysql.SQL, Len(DelimiterPrefix) + 1, Len(mysql.SQL))
LineEnds == {p \in 1..Len(AfterPrefix) : AfterPrefix[p] = "\n"}
FirstLineEnd == CHOOSE p \in LineEnds : \A q \in LineEnds : p <= q
\* The first line after the prefix, and the text after the first line.
RestOfFirstLine ==
  IF LineEnds = {} THEN AfterPrefix ELSE SubSeq(AfterPrefix, 1, FirstLineEnd - 1)
Remaining ==
  IF ~HasDirective THEN mysql.SQL
  ELSE IF LineEnds = {} THEN <<>>
  ELSE SubSeq(AfterPrefix, FirstLineEnd + 1, Len(AfterPrefix))
DirectiveLine == DelimiterPrefix \o RestOfFirstLine
\* The rest of the first line from its first to its last character that is not
\* white space.
Inked == {p \in 1..Len(RestOfFirstLine) : ~IsSpace(RestOfFirstLine[p])}
Trimmed ==
  IF Inked = {} THEN <<>>
  ELSE SubSeq(RestOfFirstLine,
              CHOOSE p \in Inked : \A q \in Inked : p <= q,
              CHOOSE p \in Inked : \A q \in Inked : p >= q)
\* Trimmed is a quoted string literal: in double quotes with no double quote
\* inside, or one character other than a single quote in single quotes.
IsQuoted ==
  /\ Len(Trimmed) >= 2
  /\ Trimmed[1] = Trimmed[Len(Trimmed)]
  /\ \A p \in 2..(Len(Trimmed) - 1) : Trimmed[p] # Trimmed[1]
  /\ \/ Trimmed[1] = "\""
     \/ Trimmed[1] = "'" /\ Len(Trimmed) = 3

\* out is Remaining split on every occurrence of delimiter, in order.
SplitOn(delimiter) ==
  /\ Join(mysql.out, delimiter) = Remaining
  /\ IF delimiter = <<>>
     THEN \A p \in 1..Len(mysql.out) : Len(mysql.out[p]) = 1
     ELSE \A p \in 1..Len(mysql.out) : ~Contains(mysql.out[p], delimiter)
  /\ HasDirective => \A p \in 1..Len(mysql.out) : ~Contains(mysql.out[p], DirectiveLine)

NonEmptyStatements == {p \in 1..Len(mysql.out) : mysql.out[p] # <<>>}

\* The example of the directive: two non-empty statements.
ExampleSplits ==
  mysql.SQL = ExampleScript =>
    /\ Cardinality(NonEmptyStatements) = 2
    /\ Remaining = SubSeq(ExampleScript, 13, Len(ExampleScript))

----------------------------------------------------------------------------
\* MigrationsFromPath(migrationsPath, logger).
\*
\* A file of the directory is [num, name, type], standing for the path
\* <migrationsPath>/<num>_<name>_<type>.sql.  loader.matches is the result of
\* filepath.Glob (sorted by name), loader.idx the position of the range loop,
\* loader.migrations the map num -> Migration, loader.ret the returned error
\* ("none" while running) and loader.v the returned migrations (a set: the slice
\* is filled in map iteration order).  A string built from paths is the sequence
\* of its parts, a path or " ".

FileNames == <<"bar", "foo">>
FileTypes == <<"down", "sideways", "up">>
Files == [num : 0..MaxId, name : Range(FileNames), type : Range(FileTypes)]

Rank(names, x) == CHOOSE r \in 1..Len(names) : names[r] = x
\* Place of a file in the order of sort.Strings on the paths.
FileKey(f) ==
  (f.num * Len(FileNames) + Rank(FileNames, f.name) - 1) * Len(FileTypes)
    + Rank(FileTypes, f.type) - 1

\* filepath.Glob: the files of a directory in ascending order of their names.
GlobResults ==
  UNION {{s \in [1..l -> Files] : \A p \in 1..(l - 1) : FileKey(s[p]) < FileKey(s[p + 1])} :
           l \in 0..MaxFiles}

\* parseMigrationPath: the parts of a file name of the form
\* <id>_<name>_<up|down>.sql, an error for any other name.
parseMigrationPath(match) ==
  IF match.type \in {"up", "down"}
  THEN [err |-> FALSE, num |-> match.num, migrationType |-> match.type, name |-> match.name]
  ELSE [err |-> TRUE, num |-> 0, migrationType |-> "", name |-> ""]

\* ioutil.ReadFile: the text of a file, not empty and different for each file.
FileSQL(match) == <<match>>

\* The Migration made for the first file of an id.
NewMigration(parsed, match, sql) ==
  [ID |-> parsed.num, Name |-> parsed.name, Source |-> <<match>>, Status |-> Inactive,
   Up |-> IF parsed.migrationType = "up" THEN sql ELSE <<>>,
   Down |-> IF parsed.migrationType = "up" THEN <<>> ELSE sql]

AddFile_SourceReplaced(m, parsed, match, sql) ==
  IF parsed.migrationType = "up"
  THEN [m EXCEPT !.Source = <<match>>, !.Up = sql]
  ELSE [m EXCEPT !.Source = <<match>>, !.Down = sql]

\* A further file of an id already in the map.
AddFile(m, parsed, match, sql) ==
  IF parsed.migrationType = "up"
  THEN [m EXCEPT !.Source = @ \o <<" ", match>>, !.Up = sql]
  ELSE [m EXCEPT !.Source = @ \o <<" ", match>>, !.Down = sql]

LoadInit ==
  /\ NoMigrator
  /\ ctor = CtorIdle
  /\ mysql = SplitIdle
  /\ \E g \in GlobResults :
       loader = [matches |-> g, idx |-> 1, migrations |-> <<>>, ret |-> "none", v |-> {}]

\* One iteration of the loop over the matches: skip a file whose name does not
\* parse, return the error of a failed read, else create or complete the
\* Migration of the id.
LoadFile ==
  /\ loader.ret = "none"
  /\ loader.idx <= Len(loader.matches)
  /\ LET match == loader.matches[loader.idx]
         parsed == parseMigrationPath(match)
         ms == loader.migrations
     IN IF parsed.err
        THEN loader' = [loader EXCEPT !.idx = @ + 1]
        ELSE \E readFailed \in BOOLEAN :
               IF readFailed
               THEN loader' = [loader EXCEPT !.ret = "ReadErr"]
               ELSE loader' =
                      [loader EXCEPT
                         !.idx = @ + 1,
                         !.migrations =
                            [num \in DOMAIN ms \cup {parsed.num} |->
                               IF num # parsed.num THEN ms[num]
                               ELSE IF num \in DOMAIN ms
                               THEN AddFile(ms[num], parsed, match, FileSQL(match))
                               ELSE NewMigration(parsed, match, FileSQL(match))]]
  /\ UNCHANGED <<migratorVars, ctor, mysql>>

\* After the loop: validate every Migration of the map, then return them all.
LoadValidate ==
  /\ loader.ret = "none"
  /\ loader.idx > Len(loader.matches)
  /\ IF \E num \in DOMAIN loader.migrations : Validate(loader.migrations[num]) # "nil"
     THEN loader' = [loader EXCEPT !.ret = "ErrInvalidMigrationPair"]
     ELSE loader' = [loader EXCEPT !.ret = "nil",
                                   !.v = {loader.migrations[num] : num \in DOMAIN loader.migrations}]
  /\ UNCHANGED <<migratorVars, ctor, mysql>>

LoadNext ==
  \/ LoadFile
  \/ LoadValidate

LoadSpec == LoadInit /\ [][LoadNext]_vars

\* Observations on a run of MigrationsFromPath.

\* The files of the directory whose names match the pattern, and those of one id.
Matching == {f \in Range(loader.matches) : f.type \in {"up", "down"}}
FilesOf(num) == {f \in Matching : f.num = num}
\* The paths of the files of an id, in the order of the glob result, joined by
\* single spaces.
RECURSIVE JoinedPaths(_, _)
JoinedPaths(num, p) ==
  IF p > Len(loader.matches) THEN <<>>
  ELSE LET f == loader.matches[p]
           later == JoinedPaths(num, p + 1)
       IN IF f \notin FilesOf(num) THEN later
          ELSE IF later = <<>> THEN <<f>>
          ELSE <<f, " ">> \o later

\* C16: a load that succeeds returns exactly one Migration per distinct id of the
\* matching files, its source the paths of the files of that id joined by single
\* spaces; two files with the same id and name and opposite directions (and no
\* third file of that id) give one Migration with that id and name, its up script
\* the text of the up file, its down script the text of the down file, and its
\* source both paths joined by a single space; files with different ids give
\* different Migrations.
C16_OneMigrationPerId ==
  loader.ret = "nil" =>
    /\ {m.ID : m \in loader.v} = {f.num : f \in Matching}
    /\ Cardinality(loader.v) = Cardinality({f.num : f \in Matching})
    /\ \A m \in loader.v : m.Source = JoinedPaths(m.ID, 1)
    /\ \A f, g \in Matching :
         (f.num = g.num /\ f.name = g.name /\ f.type = "up" /\ g.type = "down"
            /\ FilesOf(f.num) = {f, g}) =>
           \E m \in loader.v :
             /\ m.ID = f.num /\ m.Name = f.name
             /\ m.Up = FileSQL(f) /\ m.Down = FileSQL(g)
             /\ m.Up # <<>> /\ m.Down # <<>>
             /\ m.Source = <<g, " ", f>>
             /\ \A o \in loader.v : o.ID = m.ID => o = m
    /\ \A f, g \in Matching :
         f.num # g.num => \E m, o \in loader.v : m # o /\ m.ID = f.num /\ o.ID = g.num

\* 1_foo_down.sql and 1_foo_up.sql were loaded into one Migration while
\* 2_bar_down.sql gave another.
C16_Witness ==
  /\ loader.ret = "nil"
  /\ Len(loader.matches) = 3
  /\ [num |-> 1, name |-> "foo", type |-> "up"] \in Matching
  /\ [num |-> 1, name |-> "foo", type |-> "down"] \in Matching
  /\ [num |-> 2, name |-> "bar", type |-> "down"] \in Matching
  /\ Cardinality(loader.v) = 2
  /\ \E m \in loader.v : m.ID = 1 /\ m.Up # <<>> /\ m.Down # <<>>

\* C17: the name must match between the up and the down half of a pair: the loader
\* never returns a Migration whose up script and down script come from files with
\* the same id but different names.
C17_PairNamesMatch ==
  loader.ret = "nil" =>
    \A m \in loader.v :
      ~ \E f, g \in FilesOf(m.ID) :
          /\ f.type = "up" /\ g.type = "down"
          /\ f.name # g.name
          /\ m.Up = FileSQL(f) /\ m.Down = FileSQL(g)

----------------------------------------------------------------------------
\* One Migrator that is the only writer of the database: the calls of Next
\* without the commits of another Migrator.
SoloNext ==
  \/ CallMigrate
  \/ MigrateTableExists
  \/ MigrateCreateTable
  \/ MigrateSync
  \/ MigrateLoop
  \/ MigrateAfterApply
  \/ ApplyStart
  \/ ApplyExec
  \/ ApplyLog
  \/ ApplyCommit
  \/ CallRollback
  \/ CallRollbackN
  \/ CallRollbackAll
  \/ RollbackSync
  \/ RollbackLoop
  \/ RollbackAfterApply

SoloSpec == Init /\ [][SoloNext]_vars

\* C21: with one Migrator as the only writer, the committed applications of a
\* migration alternate up, down, up, ...: ApplyMigration runs an up script only for
\* a migration without a row and a down script only for one with a row, the
\* committed rows do not change while it runs, its insert never meets a row of the
\* same id (so the table never holds two rows for one id), and a committed up
\* leaves exactly the row added, a committed down exactly the row removed.
C21_CommitsAlternate ==
  /\ (pc \in {"am_start", "am_exec", "am_log", "am_commit"} =>
        /\ rows = h.amRows0
        /\ (dir = "up" => cur \notin rows)
        /\ (dir = "down" => cur \in rows))
  /\ (pc = "am_log" /\ dir = "up" => cur \notin txRows)
  /\ (pc = "am_commit" =>
        txRows = (IF dir = "up" THEN rows \cup {cur} ELSE rows \ {cur}))
  /\ (pc = "am_ret" =>
        IF amRet # "nil" THEN rows = h.amRows0
        ELSE IF dir = "up" THEN cur \notin h.amRows0 /\ rows = h.amRows0 \cup {cur}
        ELSE cur \in h.amRows0 /\ rows = h.amRows0 \ {cur})
  /\ rows \subseteq ids

\* A migration reversed by the rollback call before was applied again by Migrate:
\* down, then up.
C21_Witness ==
  /\ op = "Migrate" /\ h.after = "back"
  /\ pc = "am_ret" /\ amRet = "nil" /\ dir = "up"
  /\ cur \in h.prevDone /\ cur \in rows

\* C22: Migrate() never executes a down script, never deletes a metadata row and
\* never sets a status to Inactive; Rollback(), RollbackN() and RollbackAll() never
\* execute an up script, never insert a metadata row, never create the metadata
\* table and set a status from Inactive to Active only in the status
\* synchronization (for a migration that had a row when the call started, and not
\* after the synchronization is over); no call adds a migration to the collection
\* or removes one.
C22_Frame ==
  /\ DOMAIN status = ids /\ DOMAIN h.status0 = ids
  /\ DOMAIN up = ids /\ DOMAIN down = ids
  /\ (op = "Migrate" =>
        /\ (InApply => dir = "up")
        /\ h.rows0 \subseteq rows
        /\ (tx = "open" => rows \subseteq txRows)
        /\ h.objs0 \subseteq objs
        /\ (h.table0 => tableExists)
        /\ \A id \in ids : h.status0[id] = Active => status[id] = Active)
  /\ (op \in RollbackOps =>
        /\ (InApply => dir = "down")
        /\ rows \subseteq h.rows0
        /\ (tx = "open" => txRows \subseteq rows)
        /\ objs \subseteq h.objs0
        /\ tableExists = h.table0
        /\ createRet = "none"
        /\ \A id \in ids :
             (h.status0[id] = Inactive /\ status[id] = Active) => id \in h.rows0
        /\ (h.synced => ActiveSet \subseteq h.act))

\* RollbackAll reversed two migrations that were Active with a row when the call
\* started: both rows are gone and both statuses are Inactive.
C22_Witness ==
  /\ op = "RollbackAll" /\ pc = "idle" /\ ret = "nil"
  /\ Len(h.done) = 2
  /\ h.rows0 = Range(h.done) /\ rows = {}
  /\ h.act = Range(h.done) /\ ActiveSet = {}
  /\ \A id \in ids : h.status0[id] = Active

====
